---------------------------- MODULE Spec2Model ----------------------------
(***************************************************************************)
(* A model of qutip/graph.py: the Python entry points                      *)
(* breadth_first_search, symrcm, bfs_matching and weighted_bfs_matching,   *)
(* together with the compiled kernels of qutip.cy.graph_utils they call.   *)
(*                                                                         *)
(* A sparse matrix is a record [nrows, ncols, val, fmt]: val maps every    *)
(* cell <<i, j>> (0-based) to its stored value, 0 standing for "no stored  *)
(* entry"; fmt is the container the caller hands in ("csr", "csc" or       *)
(* "Qobj", a Qobj holding CSR data).  Nodes, rows and columns are 0-based  *)
(* as in the source; TLA+ sequences are 1-based, so slot k of an array is  *)
(* element k+1 of the sequence that models it.                             *)
(*                                                                         *)
(* graph.py holds the entry points only.  The kernels it imports from      *)
(* qutip.cy.graph_utils (the cy_... operators and their helpers below) are *)
(* modelled from sections 4.2 to 4.7 and 6 of the specification.           *)
(*                                                                         *)
(* finder is the position of one run of the pseudo-peripheral finder,      *)
(* taken round by round (root r, node returned x, rounds made so far);     *)
(* bloch is a Bloch3d object of qutip/bloch3d.py.                          *)
(***************************************************************************)
EXTENDS Integers, Sequences, FiniteSets, TLC

VARIABLES A, op, arg, out, finder, bloch

vars == <<A, op, arg, out, finder, bloch>>

(***************************************************************************)
(* Bounds of the model.                                                    *)
(***************************************************************************)
MaxN == 3          \* largest general square graph (nodes)
MaxPath == 5       \* longest path graph 0-1-...-(n-1)
MaxDim == 3        \* largest row / column count handed to the matchers
MaxPoints == 2     \* most point sets held by a Bloch3d object
MaxVectors == 3    \* most vectors held by a Bloch3d object
MaxSaves == 2      \* most calls of Bloch3d.save

(***************************************************************************)
(* Generic helpers.                                                        *)
(***************************************************************************)
Range(s) == {s[k] : k \in 1..Len(s)}

At(s, k) == s[k + 1]

SetMin(S) == CHOOSE x \in S : \A y \in S : x <= y

RECURSIVE Asc(_)
Asc(S) == IF S = {} THEN <<>> ELSE <<SetMin(S)>> \o Asc(S \ {SetMin(S)})

RECURSIVE Concat(_)
Concat(ss) == IF ss = <<>> THEN <<>> ELSE Head(ss) \o Concat(Tail(ss))

Reverse(s) == [k \in 1..Len(s) |-> s[Len(s) + 1 - k]]

Abs(x) == IF x < 0 THEN -x ELSE x

Cells(nr, nc) == (0..(nr - 1)) \X (0..(nc - 1))

(***************************************************************************)
(* scipy.sparse: the compressed arrays of a matrix, transposition, sum.    *)
(***************************************************************************)
RowCols(M, i) == Asc({j \in 0..(M.ncols - 1) : M.val[<<i, j>>] # 0})

\* indices of the CSR form: the column indices, row after row
CsrIndices(M) == Concat([r \in 1..M.nrows |-> RowCols(M, r - 1)])

\* data of the CSR form, aligned with the indices
CsrData(M) ==
    Concat([r \in 1..M.nrows |->
        [k \in 1..Len(RowCols(M, r - 1)) |-> M.val[<<r - 1, RowCols(M, r - 1)[k]>>]]])

RECURSIVE PtrFrom(_, _, _)
PtrFrom(M, i, acc) ==
    IF i = M.nrows THEN <<acc>>
    ELSE <<acc>> \o PtrFrom(M, i + 1, acc + Len(RowCols(M, i)))

\* indptr of the CSR form: nrows + 1 non-decreasing offsets
CsrIndptr(M) == PtrFrom(M, 0, 0)

Transpose(M) ==
    [nrows |-> M.ncols, ncols |-> M.nrows, fmt |-> M.fmt,
     val |-> [c \in Cells(M.ncols, M.nrows) |-> M.val[<<c[2], c[1]>>]]]

\* A + B: entries whose sum is zero are not stored in the result
Add(M, N) ==
    [nrows |-> M.nrows, ncols |-> M.ncols, fmt |-> M.fmt,
     val |-> [c \in Cells(M.nrows, M.ncols) |-> M.val[c] + N.val[c]]]

\* A.indices / A.indptr / A.data as the container stores them: a CSC matrix
\* stores the CSR arrays of its transpose
Indices(M) == IF M.fmt = "csc" THEN CsrIndices(Transpose(M)) ELSE CsrIndices(M)
Indptr(M)  == IF M.fmt = "csc" THEN CsrIndptr(Transpose(M)) ELSE CsrIndptr(M)
Data(M)    == IF M.fmt = "csc" THEN CsrData(Transpose(M)) ELSE CsrData(M)

(***************************************************************************)
(* qutip.cy.graph_utils._node_degrees                                      *)
(***************************************************************************)
node_degrees(ind, ptr, n) == [i \in 0..(n - 1) |-> At(ptr, i + 1) - At(ptr, i)]

(***************************************************************************)
(* qutip.cy.graph_utils._breadth_first_search: level-order traversal.      *)
(* st = [order, level]; the node at position k of order is expanded by     *)
(* scanning its adjacency slots in ascending slot order.                   *)
(***************************************************************************)
RECURSIVE BfsRow(_, _, _, _, _)
BfsRow(ind, jj, hi, lv, st) ==
    IF jj >= hi THEN st
    ELSE IF At(ind, jj) \in Range(st.order)
         THEN BfsRow(ind, jj + 1, hi, lv, st)
         ELSE BfsRow(ind, jj + 1, hi, lv,
                     [order |-> Append(st.order, At(ind, jj)),
                      level |-> Append(st.level, lv)])

RECURSIVE BfsLoop(_, _, _, _)
BfsLoop(ind, ptr, k, st) ==
    IF k > Len(st.order) THEN st
    ELSE BfsLoop(ind, ptr, k + 1,
                 BfsRow(ind, At(ptr, st.order[k]), At(ptr, st.order[k] + 1),
                        st.level[k] + 1, st))

\* an array of length n: s followed by the -1 sentinel in the unused slots
Pad(s, n) == [k \in 1..n |-> IF k <= Len(s) THEN s[k] ELSE -1]

cy_breadth_first_search(ind, ptr, n, start) ==
    IF start \notin 0..(n - 1)
    THEN [err |-> "InvalidNode", order |-> <<>>, level |-> <<>>]
    ELSE LET st == BfsLoop(ind, ptr, 1, [order |-> <<start>>, level |-> <<0>>])
         IN  [err |-> "none", order |-> Pad(st.order, n), level |-> Pad(st.level, n)]

(***************************************************************************)
(* graph.py: breadth_first_search(A, start)                                *)
(***************************************************************************)
\* order[order != -1]
DropSentinel(s) == SelectSeq(s, LAMBDA x : x # -1)

\* mutant: the unused slots of the kernel's arrays are not removed
breadth_first_search_unfiltered(M, start) ==
    cy_breadth_first_search(Indices(M), Indptr(M), M.nrows, start)

\* mutant: a negative start is taken as an index from the end
breadth_first_search_wrapped(M, start) ==
    LET r == cy_breadth_first_search(Indices(M), Indptr(M), M.nrows,
                                     IF start < 0 THEN start + M.nrows ELSE start)
    IN  IF r.err # "none" THEN r
        ELSE [err |-> "none", order |-> DropSentinel(r.order),
              level |-> DropSentinel(r.level)]

breadth_first_search(M, start) ==
    LET r == cy_breadth_first_search(Indices(M), Indptr(M), M.nrows, start)
    IN  IF r.err # "none" THEN r
        ELSE [err |-> "none", order |-> DropSentinel(r.order),
              level |-> DropSentinel(r.level)]

(***************************************************************************)
(* qutip.cy.graph_utils._pseudo_peripheral_node: from r, traverse; among   *)
(* the nodes of the last level take one of minimum degree (the first met   *)
(* in traversal order) as candidate x; traverse from x; if the             *)
(* eccentricity grew, continue from x, otherwise return x.                 *)
(***************************************************************************)
Traverse(ind, ptr, r) == BfsLoop(ind, ptr, 1, [order |-> <<r>>, level |-> <<0>>])

Ecc(st) == st.level[Len(st.level)]

LastLevel(st) == SelectSeq(st.order, LAMBDA v :
                    \E k \in 1..Len(st.order) : st.order[k] = v /\ st.level[k] = Ecc(st))

RECURSIVE ArgMinDeg(_, _, _)
ArgMinDeg(s, deg, best) ==
    IF s = <<>> THEN best
    ELSE ArgMinDeg(Tail(s), deg, IF deg[Head(s)] < deg[best] THEN Head(s) ELSE best)

Candidate(ind, ptr, n, r) ==
    LET last == LastLevel(Traverse(ind, ptr, r))
    IN  ArgMinDeg(Tail(last), node_degrees(ind, ptr, n), Head(last))

RECURSIVE pseudo_peripheral_node(_, _, _, _)
pseudo_peripheral_node(ind, ptr, n, r) ==
    LET x == Candidate(ind, ptr, n, r)
    IN  IF Ecc(Traverse(ind, ptr, x)) > Ecc(Traverse(ind, ptr, r))
        THEN pseudo_peripheral_node(ind, ptr, n, x)
        ELSE x

\* mutant: a candidate of equal eccentricity is taken as the next root too
Improves_orEqual(ind, ptr, x, r) ==
    Ecc(Traverse(ind, ptr, x)) >= Ecc(Traverse(ind, ptr, r))

\* the test of one round: the traversal from the candidate x is deeper
\* than the one from the root r
Improves(ind, ptr, x, r) ==
    Ecc(Traverse(ind, ptr, x)) > Ecc(Traverse(ind, ptr, r))

\* one round of the finder at root f.r; f = [r, x, done, rounds]
finder_round(ind, ptr, n, f) ==
    LET x == Candidate(ind, ptr, n, f.r)
    IN  IF Improves(ind, ptr, x, f.r)
        THEN [r |-> x, x |-> -1, done |-> FALSE, rounds |-> f.rounds + 1]
        ELSE [r |-> f.r, x |-> x, done |-> TRUE, rounds |-> f.rounds + 1]

(***************************************************************************)
(* qutip.cy.graph_utils._rcm: Cuthill-McKee order of every component,      *)
(* components seeded by ascending node id, the whole order reversed.       *)
(***************************************************************************)
\* stable insertion of v into s, which is sorted by ascending degree
RECURSIVE InsertByDeg(_, _, _)
InsertByDeg(s, v, deg) ==
    IF s = <<>> THEN <<v>>
    ELSE IF deg[v] < deg[Head(s)] THEN <<v>> \o s
         ELSE <<Head(s)>> \o InsertByDeg(Tail(s), v, deg)

RECURSIVE SortByDeg(_, _, _)
SortByDeg(s, deg, acc) ==
    IF s = <<>> THEN acc
    ELSE SortByDeg(Tail(s), deg, InsertByDeg(acc, Head(s), deg))

\* the not yet seen neighbours in adjacency slots jj..hi-1, in slot order
RECURSIVE NewNbrs(_, _, _, _, _)
NewNbrs(ind, jj, hi, seen, acc) ==
    IF jj >= hi THEN acc
    ELSE IF At(ind, jj) \in seen \/ At(ind, jj) \in Range(acc)
         THEN NewNbrs(ind, jj + 1, hi, seen, acc)
         ELSE NewNbrs(ind, jj + 1, hi, seen, Append(acc, At(ind, jj)))

\* the next level: the unseen neighbours of the nodes of this level, in
\* discovery order
RECURSIVE NextLevel(_, _, _, _, _)
NextLevel(ind, ptr, lvl, seen, acc) ==
    IF lvl = <<>> THEN acc
    ELSE NextLevel(ind, ptr, Tail(lvl), seen,
                   NewNbrs(ind, At(ptr, Head(lvl)), At(ptr, Head(lvl) + 1), seen, acc))

\* breadth-first from the level lvl, each new level sorted by ascending degree
RECURSIVE CmLevels(_, _, _, _, _)
CmLevels(ind, ptr, deg, lvl, order) ==
    IF lvl = <<>> THEN order
    ELSE LET nxt == SortByDeg(NextLevel(ind, ptr, lvl, Range(order), <<>>), deg, <<>>)
         IN  CmLevels(ind, ptr, deg, nxt, order \o nxt)

RECURSIVE RcmSeeds(_, _, _, _, _)
RcmSeeds(ind, ptr, n, seed, order) ==
    IF seed >= n THEN order
    ELSE IF seed \in Range(order) THEN RcmSeeds(ind, ptr, n, seed + 1, order)
    ELSE LET start == IF Len(order) = n - 1 THEN seed
                      ELSE pseudo_peripheral_node(ind, ptr, n, seed)
         IN  RcmSeeds(ind, ptr, n, seed + 1,
                      CmLevels(ind, ptr, node_degrees(ind, ptr, n),
                               <<start>>, order \o <<start>>))

cy_rcm(ind, ptr, n) == Reverse(RcmSeeds(ind, ptr, n, 0, <<>>))

(***************************************************************************)
(* graph.py: symrcm(A, sym)                                                *)
(***************************************************************************)
\* A.data of a Qobj: its CSR matrix
QobjData(M) == [M EXCEPT !.fmt = "csr"]

\* mutant: the transposition is forgotten
Symmetrize_untransposed(M) == Add(M, M)

\* A + A.transpose()
Symmetrize(M) == Add(M, Transpose(M))

symrcm(M, sym) ==
    IF M.fmt = "Qobj"
    THEN IF ~sym
         THEN cy_rcm(Indices(Symmetrize(QobjData(M))),
                     Indptr(Symmetrize(QobjData(M))), M.nrows)
         ELSE cy_rcm(Indices(QobjData(M)), Indptr(QobjData(M)), M.nrows)
    ELSE LET S == IF ~sym THEN Symmetrize(M) ELSE M
         IN  cy_rcm(Indices(S), Indptr(S), M.nrows)

(***************************************************************************)
(* qutip.cy.graph_utils._bfs_matching: maximum-cardinality matching by     *)
(* breadth-first augmenting paths over the bipartite graph that the arrays *)
(* describe: pointer group g on one side, the indices held in its slots on *)
(* the other.  owner[x] is the group that index x is assigned to, or       *)
(* UNMATCHED; the array returned has, in slot g, the index assigned to     *)
(* group g, or UNMATCHED.  graph.py passes the arrays of a CSC matrix: a   *)
(* group is then a column of A and the indices in its slots are rows of A. *)
(***************************************************************************)
UNMATCHED == -1

\* the slots ptr[g] .. ptr[g+1]-1 of group g, in storage order
Slots(ptr, g) == [k \in 1..(At(ptr, g + 1) - At(ptr, g)) |-> At(ptr, g) + k - 1]

\* scan the indices of group g in the order of the slot list sl;
\* st = [queue, visited, parent, found]
RECURSIVE ScanGroup(_, _, _, _, _)
ScanGroup(ind, sl, g, owner, st) ==
    IF sl = <<>> \/ st.found # UNMATCHED THEN st
    ELSE LET x == At(ind, Head(sl))
         IN  IF x \in st.visited THEN ScanGroup(ind, Tail(sl), g, owner, st)
             ELSE ScanGroup(ind, Tail(sl), g, owner,
                    [queue   |-> IF owner[x] = UNMATCHED THEN st.queue
                                 ELSE Append(st.queue, owner[x]),
                     visited |-> st.visited \cup {x},
                     parent  |-> [st.parent EXCEPT ![x] = g],
                     found   |-> IF owner[x] = UNMATCHED THEN x ELSE UNMATCHED])

\* the worklist of groups; slots[g] gives the scan order of group g
RECURSIVE SearchLoop(_, _, _, _, _)
SearchLoop(ind, slots, k, owner, st) ==
    IF st.found # UNMATCHED \/ k > Len(st.queue) THEN st
    ELSE SearchLoop(ind, slots, k + 1, owner,
                    ScanGroup(ind, slots[st.queue[k]], st.queue[k], owner, st))

\* the index assigned to group g
Assigned(owner, g) == CHOOSE x \in DOMAIN owner : owner[x] = g

\* flip the matching along the path that ends in the free index x
RECURSIVE Flip(_, _, _, _)
Flip(owner, parent, x, g0) ==
    IF parent[x] = g0 THEN [owner EXCEPT ![x] = g0]
    ELSE Flip([owner EXCEPT ![x] = parent[x]], parent, Assigned(owner, parent[x]), g0)

\* try to match group g0 by an augmenting path
Augment(ind, slots, n, g0, owner) ==
    LET st == SearchLoop(ind, slots, 1, owner,
                         [queue |-> <<g0>>, visited |-> {},
                          parent |-> [x \in 0..(n - 1) |-> UNMATCHED],
                          found |-> UNMATCHED])
    IN  IF st.found = UNMATCHED THEN owner ELSE Flip(owner, st.parent, st.found, g0)

RECURSIVE MatchGroups(_, _, _, _, _)
MatchGroups(ind, slots, n, groups, owner) ==
    IF groups = <<>> THEN owner
    ELSE MatchGroups(ind, slots, n, Tail(groups),
                     Augment(ind, slots, n, Head(groups), owner))

\* the array returned: slot g holds the index assigned to group g
MatchArray(owner, n) ==
    [k \in 1..n |-> IF \E x \in 0..(n - 1) : owner[x] = k - 1
                    THEN Assigned(owner, k - 1) ELSE UNMATCHED]

cy_bfs_matching(ind, ptr, n) ==
    LET slots == [g \in 0..(n - 1) |-> Slots(ptr, g)]
    IN  MatchArray(MatchGroups(ind, slots, n, [k \in 1..n |-> k - 1],
                               [x \in 0..(n - 1) |-> UNMATCHED]), n)

(***************************************************************************)
(* qutip.cy.graph_utils._weighted_bfs_matching: groups by descending       *)
(* largest weight; a group takes the heaviest of its unassigned indices,   *)
(* else an augmenting path is searched along heavier entries first.        *)
(***************************************************************************)
\* stable insertion of x into s, sorted by descending key
RECURSIVE InsertDesc(_, _, _)
InsertDesc(s, x, key) ==
    IF s = <<>> THEN <<x>>
    ELSE IF key[x] > key[Head(s)] THEN <<x>> \o s
         ELSE <<Head(s)>> \o InsertDesc(Tail(s), x, key)

RECURSIVE SortDesc(_, _, _)
SortDesc(s, key, acc) ==
    IF s = <<>> THEN acc
    ELSE SortDesc(Tail(s), key, InsertDesc(acc, Head(s), key))

SeqMax(s) == IF s = <<>> THEN 0 ELSE CHOOSE x \in Range(s) : \A y \in Range(s) : y <= x

\* the largest weight of group g
GroupMax(data, ptr, g) ==
    SeqMax([k \in 1..Len(Slots(ptr, g)) |-> At(data, Slots(ptr, g)[k])])

\* the slots of group g, heaviest entry first (ties in storage order)
HeavySlots(data, ptr, g) ==
    SortDesc(Slots(ptr, g), [q \in 0..(Len(data) - 1) |-> At(data, q)], <<>>)

\* group g takes the heaviest of its unassigned indices, if any
Greedy(data, ind, ptr, g, owner) ==
    LET free == SelectSeq(HeavySlots(data, ptr, g),
                          LAMBDA q : owner[At(ind, q)] = UNMATCHED)
    IN  IF free = <<>> THEN owner ELSE [owner EXCEPT ![At(ind, Head(free))] = g]

RECURSIVE WeightedGroups(_, _, _, _, _, _)
WeightedGroups(data, ind, ptr, n, groups, owner) ==
    IF groups = <<>> THEN owner
    ELSE LET g == Head(groups)
             slots == [h \in 0..(n - 1) |-> HeavySlots(data, ptr, h)]
             t == Greedy(data, ind, ptr, g, owner)
         IN  WeightedGroups(data, ind, ptr, n, Tail(groups),
                 IF t # owner THEN t ELSE Augment(ind, slots, n, g, owner))

cy_weighted_bfs_matching(data, ind, ptr, n) ==
    IF \E k \in 1..Len(data) : data[k] < 0
    THEN [err |-> "InvalidWeight", perm |-> <<>>]
    ELSE [err |-> "none",
          perm |-> MatchArray(WeightedGroups(data, ind, ptr, n,
                      SortDesc([k \in 1..n |-> k - 1],
                               [g \in 0..(n - 1) |-> GroupMax(data, ptr, g)], <<>>),
                      [x \in 0..(n - 1) |-> UNMATCHED]), n)]

(***************************************************************************)
(* graph.py: bfs_matching(A) and weighted_bfs_matching(A).  A result is    *)
(* [err, perm, warned, coerced, kernel]: the error raised ("none" when the *)
(* call returns perm), whether the SparseEfficiencyWarning was issued,     *)
(* whether the input was converted to CSC, whether the kernel ran.         *)
(* ValueError('... requires a square matrix.') is the ShapeMismatch of the *)
(* specification, Exception('Possibly singular input matrix.') its         *)
(* SingularStructure.                                                      *)
(***************************************************************************)
\* A.data.tocsc(), sp.csc_matrix(A)
ToCsc(M) == [M EXCEPT !.fmt = "csc"]

Raise(e, w, c, k) == [err |-> e, perm |-> <<>>, warned |-> w, coerced |-> c, kernel |-> k]

\* mutant: the input is brought to CSR instead of CSC
Coerce_tocsr(M) ==
    [A |-> [M EXCEPT !.fmt = "csr"], warned |-> M.fmt = "csr",
     coerced |-> M.fmt # "csc"]

\* mutant: the warning is issued but the input is handed on as it came
Coerce_unconverted(M) ==
    [A |-> IF M.fmt = "Qobj" THEN ToCsc(QobjData(M)) ELSE M,
     warned |-> M.fmt = "csr", coerced |-> M.fmt # "csc"]

\* the conversion of the input: [A, warned, coerced]
Coerce(M) ==
    IF M.fmt = "Qobj" THEN [A |-> ToCsc(QobjData(M)), warned |-> FALSE, coerced |-> TRUE]
    ELSE IF M.fmt # "csc" THEN [A |-> ToCsc(M), warned |-> TRUE, coerced |-> TRUE]
    ELSE [A |-> M, warned |-> FALSE, coerced |-> FALSE]

\* mutant: the array of the kernel is returned without the test for -1
bfs_matching_unchecked(M) ==
    IF M.nrows # M.ncols THEN Raise("ShapeMismatch", FALSE, FALSE, FALSE)
    ELSE [err |-> "none",
          perm |-> cy_bfs_matching(Indices(Coerce(M).A), Indptr(Coerce(M).A), M.nrows),
          warned |-> Coerce(M).warned, coerced |-> Coerce(M).coerced, kernel |-> TRUE]

bfs_matching(M) ==
    IF M.nrows # M.ncols THEN Raise("ShapeMismatch", FALSE, FALSE, FALSE)
    ELSE LET c == Coerce(M)
             perm == cy_bfs_matching(Indices(c.A), Indptr(c.A), M.nrows)
         IN  IF \E k \in 1..Len(perm) : perm[k] = -1
             THEN Raise("SingularStructure", c.warned, c.coerced, TRUE)
             ELSE [err |-> "none", perm |-> perm, warned |-> c.warned,
                   coerced |-> c.coerced, kernel |-> TRUE]

\* mutant: the stored values are passed on with their signs
AbsData_signed(M) == Data(M)

\* np.asarray(np.abs(A.data), dtype=float)
AbsData(M) == [k \in 1..Len(Data(M)) |-> Abs(Data(M)[k])]

\* mutant: the shape is tested only after the conversion to CSC
weighted_bfs_matching_latecheck(M) ==
    IF M.nrows # M.ncols
    THEN Raise("ShapeMismatch", Coerce(M).warned, Coerce(M).coerced, FALSE)
    ELSE LET c == Coerce(M)
             r == cy_weighted_bfs_matching(AbsData(c.A), Indices(c.A), Indptr(c.A), M.nrows)
         IN  IF r.err # "none" THEN Raise(r.err, c.warned, c.coerced, TRUE)
             ELSE IF \E k \in 1..Len(r.perm) : r.perm[k] = -1
             THEN Raise("SingularStructure", c.warned, c.coerced, TRUE)
             ELSE [err |-> "none", perm |-> r.perm, warned |-> c.warned,
                   coerced |-> c.coerced, kernel |-> TRUE]

\* mutant: the array of the kernel is returned without the test for -1
weighted_bfs_matching_unchecked(M) ==
    IF M.nrows # M.ncols THEN Raise("ShapeMismatch", FALSE, FALSE, FALSE)
    ELSE LET c == Coerce(M)
             r == cy_weighted_bfs_matching(AbsData(c.A), Indices(c.A), Indptr(c.A), M.nrows)
         IN  IF r.err # "none" THEN Raise(r.err, c.warned, c.coerced, TRUE)
             ELSE [err |-> "none", perm |-> r.perm, warned |-> c.warned,
                   coerced |-> c.coerced, kernel |-> TRUE]

weighted_bfs_matching(M) ==
    IF M.nrows # M.ncols THEN Raise("ShapeMismatch", FALSE, FALSE, FALSE)
    ELSE LET c == Coerce(M)
             r == cy_weighted_bfs_matching(AbsData(c.A), Indices(c.A), Indptr(c.A), M.nrows)
         IN  IF r.err # "none" THEN Raise(r.err, c.warned, c.coerced, TRUE)
             ELSE IF \E k \in 1..Len(r.perm) : r.perm[k] = -1
             THEN Raise("SingularStructure", c.warned, c.coerced, TRUE)
             ELSE [err |-> "none", perm |-> r.perm, warned |-> c.warned,
                   coerced |-> c.coerced, kernel |-> TRUE]

(***************************************************************************)
(* bloch3d.py: the Bloch3d object.  The object is a record of its data     *)
(* fields (points, num_points, vectors, num_vectors, point_style),         *)
(* savenum and options, the record of the display attributes set in        *)
(* __init__.  A list or array argument is [nested, val]: nested tells      *)
(* whether its first element is itself a list (isinstance(arg[0], (list,   *)
(* np.ndarray))); a point set is <<xs, ys, zs>>.  Decimal attribute values *)
(* are kept as strings.                                                    *)
(***************************************************************************)
DefaultOptions ==
    [fig |-> "None", user_fig |-> "None", size |-> <<500, 500>>, view |-> <<45, 65>>,
     bgcolor |-> "white", fgcolor |-> "black",
     sphere_color |-> "#808080", sphere_alpha |-> "0.1",
     frame |-> TRUE, frame_num |-> 8, frame_color |-> "black", frame_width |-> 1,
     frame_alpha |-> "0.05", frame_radius |-> "0.005",
     axes_color |-> "black", axes_alpha |-> "0.4", axes_radius |-> "0.005",
     xlabel |-> <<"|x>", "">>, xlpos |-> <<"1.05", "-1.05">>,
     ylabel |-> <<"|y>", "">>, ylpos |-> <<"1.05", "-1.05">>,
     zlabel |-> <<"|0>", "|1>">>, zlpos |-> <<"1.05", "-1.05">>,
     font_color |-> "black", font_scale |-> "0.075",
     vector_mode |-> "arrow", vector_color |-> <<"r", "b", "g", "#CC6600">>,
     vector_width |-> "2.0",
     point_color |-> <<"r", "b", "g", "#CC6600">>, point_size |-> "0.075",
     point_mode |-> "sphere"]

\* Bloch3d.__init__
NewBloch ==
    [points |-> <<>>, num_points |-> 0, vectors |-> <<>>, num_vectors |-> 0,
     savenum |-> 0, point_style |-> <<>>, options |-> DefaultOptions]

\* mutant: the list of point styles is left as it is
clear_keepstyle(b) ==
    [b EXCEPT !.points = <<>>, !.num_points = 0, !.vectors = <<>>, !.num_vectors = 0]

\* Bloch3d.clear
clear(b) ==
    [b EXCEPT !.points = <<>>, !.num_points = 0, !.vectors = <<>>,
              !.num_vectors = 0, !.point_style = <<>>]

\* np.array(points) after the wrapping of a single point [x, y, z]
AsPointArray(p) ==
    IF ~p.nested THEN <<<<p.val[1]>>, <<p.val[2]>>, <<p.val[3]>>>> ELSE p.val

\* Bloch3d.add_points
add_points(b, p, meth) ==
    LET points == AsPointArray(p)
        pnts   == IF Len(points[1]) = 1
                  THEN [i \in 1..3 |-> <<points[i][1]>> \o points[i]]
                  ELSE points
    IN  IF meth = "s"
        THEN [b EXCEPT !.points = Append(b.points, pnts),
                       !.num_points = Len(Append(b.points, pnts)),
                       !.point_style = Append(b.point_style, "s")]
        ELSE [b EXCEPT !.points = Append(b.points, points),
                       !.num_points = Len(Append(b.points, points)),
                       !.point_style = Append(b.point_style, "m")]

\* the loop of add_vectors over a list of vectors
RECURSIVE AppendVectors(_, _)
AppendVectors(b, vs) ==
    IF vs = <<>> THEN b
    ELSE AppendVectors([b EXCEPT !.vectors = Append(b.vectors, Head(vs)),
                                 !.num_vectors = Len(Append(b.vectors, Head(vs)))],
                       Tail(vs))

\* Bloch3d.add_vectors
add_vectors(b, v) ==
    IF v.nested THEN AppendVectors(b, v.val)
    ELSE [b EXCEPT !.vectors = Append(b.vectors, v.val),
                   !.num_vectors = Len(Append(b.vectors, v.val))]

\* Bloch3d.save, the rendering and the file left aside
save(b) == [b EXCEPT !.savenum = b.savenum + 1]

(***************************************************************************)
(* Inputs.                                                                 *)
(***************************************************************************)
GraphVals == {-1, 0, 1}

Matrix(nr, nc, v, f) == [nrows |-> nr, ncols |-> nc, fmt |-> f, val |-> v]

\* A is some nr x nc matrix with values in V held in a container of F
IsMatrixOf(nr, nc, V, F) ==
    \E f \in F : \E v \in [Cells(nr, nc) -> V] : A = Matrix(nr, nc, v, f)

\* the ways a matrix can store the edge between i and i+1 of a path:
\* <<val[i, i+1], val[i+1, i]>>
EdgeStorings == {<<1, 1>>, <<1, 0>>, <<0, 1>>, <<1, -1>>}

PathMatrix(n, e, f) ==
    [nrows |-> n, ncols |-> n, fmt |-> f,
     val |-> [c \in Cells(n, n) |->
                IF c[2] = c[1] + 1 THEN e[c[1] + 1][1]
                ELSE IF c[1] = c[2] + 1 THEN e[c[2] + 1][2]
                ELSE 0]]

GraphFormats == {"csr", "Qobj"}

\* A is a path matrix on n nodes
IsPathInput(n) ==
    \E f \in GraphFormats : \E e \in [1..(n - 1) -> EdgeStorings] : A = PathMatrix(n, e, f)

\* the structure (stored entries) is symmetric
StructSymmetric(M) ==
    \A c \in Cells(M.nrows, M.ncols) : (M.val[c] # 0) <=> (M.val[<<c[2], c[1]>>] # 0)

NoArg == [start |-> 0, sym |-> FALSE]

NoOut == [err |-> "none", order |-> <<>>, level |-> <<>>, perm |-> <<>>,
          warned |-> FALSE, coerced |-> FALSE, kernel |-> FALSE]

\* no run of the finder under way
NoFinder == [r |-> -1, x |-> -1, done |-> FALSE, rounds |-> 0]

InitGraph ==
    /\ \/ \E n \in 1..MaxN : IsMatrixOf(n, n, GraphVals, GraphFormats)
       \/ \E n \in 1..MaxPath : IsPathInput(n)
    /\ op = "input"
    /\ arg = NoArg
    /\ out = NoOut
    /\ finder = NoFinder
    /\ bloch = NewBloch

\* a call breadth_first_search(A, start)
Bfs ==
    /\ op = "input"
    /\ \E start \in -1..A.nrows :
         /\ arg' = [NoArg EXCEPT !.start = start]
         /\ out' = [NoOut EXCEPT !.err = breadth_first_search(A, start).err,
                                 !.order = breadth_first_search(A, start).order,
                                 !.level = breadth_first_search(A, start).level]
    /\ op' = "bfs"
    /\ A' = A
    /\ UNCHANGED <<finder, bloch>>

\* a call symrcm(A, sym); sym = True is the caller's guarantee that the
\* structure is symmetric
Rcm ==
    /\ op = "input"
    /\ \E sym \in (IF StructSymmetric(A) THEN BOOLEAN ELSE {FALSE}) :
         /\ arg' = [NoArg EXCEPT !.sym = sym]
         /\ out' = [NoOut EXCEPT !.perm = symrcm(A, sym)]
    /\ op' = "symrcm"
    /\ A' = A
    /\ UNCHANGED <<finder, bloch>>

NextGraph == Bfs \/ Rcm

SpecGraph == InitGraph /\ [][NextGraph]_vars

MatchVals == {-2, 0, 1}

MatchFormats == {"csc", "csr", "Qobj"}

InitMatch ==
    /\ \E nr \in 1..MaxDim : \E nc \in 1..MaxDim :
          IsMatrixOf(nr, nc, MatchVals, MatchFormats)
    /\ op = "input"
    /\ arg = NoArg
    /\ out = NoOut
    /\ finder = NoFinder
    /\ bloch = NewBloch

Result(r) == [NoOut EXCEPT !.err = r.err, !.perm = r.perm, !.warned = r.warned,
                           !.coerced = r.coerced, !.kernel = r.kernel]

\* a call bfs_matching(A)
Match ==
    /\ op = "input"
    /\ op' = "bfs_matching"
    /\ out' = Result(bfs_matching(A))
    /\ UNCHANGED <<A, arg, finder, bloch>>

\* a call weighted_bfs_matching(A)
MatchWeighted ==
    /\ op = "input"
    /\ op' = "weighted_bfs_matching"
    /\ out' = Result(weighted_bfs_matching(A))
    /\ UNCHANGED <<A, arg, finder, bloch>>

NextMatch == Match \/ MatchWeighted

SpecMatch == InitMatch /\ [][NextMatch]_vars

(***************************************************************************)
(* One run of the pseudo-peripheral finder on the graph A from a start     *)
(* node, a round at a time.                                                *)
(***************************************************************************)
FinderVals == {0, 1}

InitFinder ==
    /\ \/ \E n \in 1..MaxN : IsMatrixOf(n, n, FinderVals, {"csr"})
       \/ \E n \in 1..MaxPath : IsPathInput(n)
    /\ op = "input"
    /\ arg = NoArg
    /\ out = NoOut
    /\ finder = NoFinder
    /\ bloch = NewBloch

\* the finder is called with a start node
FinderCall ==
    /\ op = "input"
    /\ \E start \in 0..(A.nrows - 1) :
         /\ arg' = [NoArg EXCEPT !.start = start]
         /\ finder' = [r |-> start, x |-> -1, done |-> FALSE, rounds |-> 0]
    /\ op' = "finder"
    /\ UNCHANGED <<A, out, bloch>>

\* one round: traverse from the root, pick the candidate, compare
FinderRound ==
    /\ op = "finder"
    /\ ~finder.done
    /\ finder' = finder_round(CsrIndices(A), CsrIndptr(A), A.nrows, finder)
    /\ UNCHANGED <<A, op, arg, out, bloch>>

NextFinder == FinderCall \/ FinderRound

SpecFinder == InitFinder /\ [][NextFinder]_vars

(***************************************************************************)
(* A Bloch3d object under calls of its methods and assignments to its      *)
(* display attributes.                                                     *)
(***************************************************************************)
\* arguments of add_points: a single point [x, y, z] ...
SinglePoints ==
    {[nested |-> FALSE, val |-> <<0, 0, 1>>],
     [nested |-> FALSE, val |-> <<1, 0, 0>>]}

\* ... or the lists of the x, y and z values of some points
PointLists ==
    {[nested |-> TRUE, val |-> <<<<0>>, <<1>>, <<0>>>>],
     [nested |-> TRUE, val |-> <<<<0, 1>>, <<0, 0>>, <<1, 0>>>>]}

Meths == {"s", "m", "l"}

\* arguments of add_vectors: a single vector [x, y, z] ...
SingleVectors ==
    {[nested |-> FALSE, val |-> <<0, 0, 1>>],
     [nested |-> FALSE, val |-> <<1, 0, 0>>]}

\* ... or a list of vectors
VectorLists ==
    {[nested |-> TRUE, val |-> <<<<0, 1, 0>>>>],
     [nested |-> TRUE, val |-> <<<<0, 0, 1>>, <<1, 0, 0>>>>]}

VectorCount(v) == IF v.nested THEN Len(v.val) ELSE 1

PointModes == {"sphere", "cube", "point"}

InitBloch ==
    /\ A = Matrix(1, 1, [c \in Cells(1, 1) |-> 0], "csr")
    /\ op = "input"
    /\ arg = NoArg
    /\ out = NoOut
    /\ finder = NoFinder
    /\ bloch = NewBloch

\* a call b.add_points(points, meth)
AddPoints ==
    /\ Len(bloch.points) < MaxPoints
    /\ \E meth \in Meths :
         \/ \E p \in SinglePoints : bloch' = add_points(bloch, p, meth)
         \/ \E p \in PointLists : bloch' = add_points(bloch, p, meth)
    /\ op' = "add_points"
    /\ UNCHANGED <<A, arg, out, finder>>

\* a call b.add_vectors(vectors)
AddVectors ==
    /\ \/ \E v \in SingleVectors :
            /\ Len(bloch.vectors) + VectorCount(v) <= MaxVectors
            /\ bloch' = add_vectors(bloch, v)
       \/ \E v \in VectorLists :
            /\ Len(bloch.vectors) + VectorCount(v) <= MaxVectors
            /\ bloch' = add_vectors(bloch, v)
    /\ op' = "add_vectors"
    /\ UNCHANGED <<A, arg, out, finder>>

\* a call b.clear()
Clear ==
    /\ bloch' = clear(bloch)
    /\ op' = "clear"
    /\ UNCHANGED <<A, arg, out, finder>>

\* a call b.save()
Save ==
    /\ bloch.savenum < MaxSaves
    /\ bloch' = save(bloch)
    /\ op' = "save"
    /\ UNCHANGED <<A, arg, out, finder>>

\* the caller sets display attributes: b.point_mode = ..., b.frame = ...
SetOption ==
    /\ \E m \in PointModes : \E f \in BOOLEAN :
         bloch' = [bloch EXCEPT !.options.point_mode = m, !.options.frame = f]
    /\ op' = "set_option"
    /\ UNCHANGED <<A, arg, out, finder>>

NextBloch == AddPoints \/ AddVectors \/ Clear \/ Save \/ SetOption

SpecBloch == InitBloch /\ [][NextBloch]_vars

(***************************************************************************)
(* Reference notions the properties are stated with, defined on the matrix *)
(* itself and not through the traversals above.                            *)
(***************************************************************************)
Nodes(M) == 0..(M.nrows - 1)

\* the nodes within d steps of s along stored entries (directed edges)
RECURSIVE Ball(_, _, _)
Ball(M, s, d) ==
    IF d = 0 THEN {s}
    ELSE Ball(M, s, d - 1) \cup
         {j \in Nodes(M) : \E i \in Ball(M, s, d - 1) : M.val[<<i, j>>] # 0}

Reachable(M, s) == Ball(M, s, M.nrows)

Dist(M, s, t) == SetMin({d \in 0..M.nrows : t \in Ball(M, s, d)})

IsPermutation(p, n) == Len(p) = n /\ Range(p) = 0..(n - 1)

\* the union of the stored entries of M and of its transpose
StructUnion(M) ==
    [M EXCEPT !.val = [c \in Cells(M.nrows, M.ncols) |->
                          IF M.val[c] # 0 \/ M.val[<<c[2], c[1]>>] # 0 THEN 1 ELSE 0]]

\* the graph of M is the simple path 0-1-...-(n-1)
IsPath(M) ==
    \A c \in Cells(M.nrows, M.ncols) :
        c[1] # c[2] => ((StructUnion(M).val[c] # 0) <=> (Abs(c[1] - c[2]) = 1))

PosOf(p, v) == CHOOSE k \in 1..Len(p) : p[k] = v

\* every edge of M joins nodes that are neighbours in the order p
BandwidthOne(M, p) ==
    \A c \in Cells(M.nrows, M.ncols) :
        (c[1] # c[2] /\ StructUnion(M).val[c] # 0)
            => Abs(PosOf(p, c[1]) - PosOf(p, c[2])) = 1

\* no stored entry of M is cancelled by its mirror entry in M + M^T
NoCancel(M) ==
    \A c \in Cells(M.nrows, M.ncols) :
        M.val[c] # 0 => M.val[c] + M.val[<<c[2], c[1]>>] # 0

(***************************************************************************)
(* C1: for a valid start, breadth_first_search returns order and level of  *)
(* equal length; order holds exactly the nodes reachable from start, each  *)
(* once (so no -1 and nothing outside [0, n)); level[k] is the             *)
(* shortest-path distance from start to order[k].                          *)
(***************************************************************************)
C1_BfsCorrect ==
    (op = "bfs" /\ arg.start \in Nodes(A)) =>
        /\ out.err = "none"
        /\ Len(out.order) = Len(out.level)
        /\ Range(out.order) = Reachable(A, arg.start)
        /\ Len(out.order) = Cardinality(Reachable(A, arg.start))
        /\ \A k \in 1..Len(out.order) : out.level[k] = Dist(A, arg.start, out.order[k])

\* a traversal that leaves a node unreached and reaches a node at distance 2
C1_Witness ==
    /\ op = "bfs" /\ arg.start \in Nodes(A)
    /\ Len(out.order) < A.nrows
    /\ \E k \in 1..Len(out.level) : out.level[k] = 2

(***************************************************************************)
(* C2: symrcm returns a sequence of length n holding every node of         *)
(* {0..n-1} exactly once, also for graphs with several components and      *)
(* isolated nodes.                                                         *)
(***************************************************************************)
C2_RcmPermutation == op = "symrcm" => IsPermutation(out.perm, A.nrows)

\* a graph with an isolated node and an edge elsewhere has been ordered
C2_Witness ==
    /\ op = "symrcm" /\ A.nrows = 3
    /\ \E i \in Nodes(A) : \A j \in Nodes(A) : StructUnion(A).val[<<i, j>>] = 0
    /\ \E c \in Cells(3, 3) : c[1] # c[2] /\ A.val[c] # 0
    /\ IsPermutation(out.perm, 3)

(***************************************************************************)
(* C7: for every start outside [0, n) breadth_first_search fails with      *)
(* InvalidNode and returns no traversal.                                   *)
(***************************************************************************)
C7_InvalidStart ==
    (op = "bfs" /\ arg.start \notin Nodes(A)) =>
        out.err = "InvalidNode" /\ out.order = <<>> /\ out.level = <<>>

C7_Witness ==
    op = "bfs" /\ arg.start = -1 /\ A.nrows = 2 /\ out.err = "InvalidNode"

(***************************************************************************)
(* C9: when the graph of A is the simple path 0-1-...-(n-1), every edge    *)
(* joins nodes whose positions in the order symrcm returns differ by       *)
(* exactly 1 (the reordered matrix has bandwidth 1).                       *)
(***************************************************************************)
C9_PathBandwidth ==
    (op = "symrcm" /\ IsPath(A)) => BandwidthOne(A, out.perm)

\* the same, for the matrices none of whose entries cancels in A + A^T
C9_PathBandwidthNoCancel ==
    (op = "symrcm" /\ IsPath(A) /\ (arg.sym \/ NoCancel(A)))
        => BandwidthOne(A, out.perm)

(***************************************************************************)
(* C10: symrcm with sym = False returns the order that symrcm with         *)
(* sym = True returns on the union of the stored entries of A and of its   *)
(* transpose; with sym = True the stored entries of A are used as given.   *)
(***************************************************************************)
C10_SymmetrizeIsUnion ==
    /\ (op = "symrcm" /\ ~arg.sym) => out.perm = symrcm(StructUnion(A), TRUE)
    /\ (op = "symrcm" /\ arg.sym) =>
           out.perm = cy_rcm(CsrIndices(A), CsrIndptr(A), A.nrows)

\* the same, for the matrices none of whose entries cancels in A + A^T
C10_SymmetrizeNoCancel ==
    /\ (op = "symrcm" /\ ~arg.sym /\ NoCancel(A))
           => out.perm = symrcm(StructUnion(A), TRUE)
    /\ (op = "symrcm" /\ arg.sym) =>
           out.perm = cy_rcm(CsrIndices(A), CsrIndptr(A), A.nrows)

(***************************************************************************)
(* Reference notions for the matchers.                                     *)
(***************************************************************************)
Square(M) == M.nrows = M.ncols

Bijections(n) ==
    {f \in [0..(n - 1) -> 0..(n - 1)] : \A i, j \in 0..(n - 1) : f[i] = f[j] => i = j}

\* some permutation puts a stored entry on every diagonal position
HasPerfectMatching(M) ==
    \E f \in Bijections(M.nrows) : \A i \in Nodes(M) : M.val[<<i, f[i]>>] # 0

Identity(n) == [k \in 1..n |-> k - 1]

\* the matrix of the magnitudes of the entries of M
Magnitudes(M) == [M EXCEPT !.val = [c \in Cells(M.nrows, M.ncols) |-> Abs(M.val[c])]]

\* the diagonal magnitude is strictly the greatest of its row and column
DiagDominant(M) ==
    \A i \in Nodes(M) :
        /\ M.val[<<i, i>>] # 0
        /\ \A j \in Nodes(M) \ {i} :
              /\ Abs(M.val[<<i, i>>]) > Abs(M.val[<<i, j>>])
              /\ Abs(M.val[<<i, i>>]) > Abs(M.val[<<j, i>>])

(***************************************************************************)
(* C3 as stated: whenever bfs_matching returns, p is a bijection over      *)
(* {0..n-1} without -1 and every position (i, p[i]) (row i, column p[i])   *)
(* holds a stored entry of the input.                                      *)
(***************************************************************************)
C3_EntryAtRowI ==
    (op = "bfs_matching" /\ out.err = "none") =>
        /\ IsPermutation(out.perm, A.nrows)
        /\ \A i \in Nodes(A) : A.val[<<i, At(out.perm, i)>>] # 0

(***************************************************************************)
(* C3 amended: whenever bfs_matching returns, p is a bijection over        *)
(* {0..n-1} without -1 and every position (p[i], i) (row p[i], column i)   *)
(* holds a stored entry of the input: p is a row permutation, A[p, :] has  *)
(* a zero-free diagonal.                                                   *)
(***************************************************************************)
C3_RowPermutation ==
    (op = "bfs_matching" /\ out.err = "none") =>
        /\ Square(A)
        /\ IsPermutation(out.perm, A.nrows)
        /\ \A i \in Nodes(A) : A.val[<<At(out.perm, i), i>>] # 0

\* a returned matching that is not its own inverse, on a matrix that has
\* no entry in the first diagonal position
C3_Witness ==
    /\ op = "bfs_matching" /\ out.err = "none" /\ A.nrows = 3
    /\ A.val[<<0, 0>>] = 0
    /\ \E i \in Nodes(A) : At(out.perm, At(out.perm, i)) # i

(***************************************************************************)
(* C4: on a square matrix bfs_matching fails with SingularStructure        *)
(* exactly when the pattern of stored entries has no perfect matching; a   *)
(* pattern that has one yields a returned permutation.                     *)
(***************************************************************************)
C4_SingularIffNoMatching ==
    (op = "bfs_matching" /\ Square(A)) =>
        /\ (out.err = "SingularStructure") <=> ~HasPerfectMatching(A)
        /\ HasPerfectMatching(A) => (out.err = "none" /\ Len(out.perm) = A.nrows)

\* a singular pattern with an entry in every row and every column
C4_Witness ==
    /\ op = "bfs_matching" /\ A.nrows = 3 /\ A.ncols = 3
    /\ \A i \in Nodes(A) : \E j \in Nodes(A) : A.val[<<i, j>>] # 0
    /\ \A j \in Nodes(A) : \E i \in Nodes(A) : A.val[<<i, j>>] # 0
    /\ out.err = "SingularStructure"

(***************************************************************************)
(* C5: on an input whose row count differs from its column count both     *)
(* matchers fail with ShapeMismatch, whatever the content, before any      *)
(* conversion, warning or matching step.                                   *)
(***************************************************************************)
C5_ShapeMismatchFirst ==
    (op \in {"bfs_matching", "weighted_bfs_matching"} /\ ~Square(A)) =>
        /\ out.err = "ShapeMismatch"
        /\ ~out.warned /\ ~out.coerced /\ ~out.kernel
        /\ out.perm = <<>>

\* a 2 x 3 CSR matrix with a negative entry, rejected by the weighted matcher
C5_Witness ==
    /\ op = "weighted_bfs_matching" /\ A.nrows = 2 /\ A.ncols = 3 /\ A.fmt = "csr"
    /\ \E c \in Cells(2, 3) : A.val[c] < 0
    /\ out.err = "ShapeMismatch"

(***************************************************************************)
(* C6: on a square matrix whose diagonal magnitude is strictly the         *)
(* greatest of its row and of its column, weighted_bfs_matching returns    *)
(* the identity permutation.                                               *)
(***************************************************************************)
C6_DominantIdentity ==
    (op = "weighted_bfs_matching" /\ Square(A) /\ DiagDominant(A)) =>
        out.err = "none" /\ out.perm = Identity(A.nrows)

\* a dominant 3 x 3 matrix with all off-diagonal entries stored
C6_Witness ==
    /\ op = "weighted_bfs_matching" /\ A.nrows = 3 /\ A.ncols = 3
    /\ DiagDominant(A)
    /\ \A c \in Cells(3, 3) : A.val[c] # 0
    /\ out.perm = Identity(3)

(***************************************************************************)
(* C8 as stated: weighted_bfs_matching fails with InvalidWeight whenever   *)
(* a stored value of the (square) input is negative.                       *)
(***************************************************************************)
C8_NegativeRejected ==
    (/\ op = "weighted_bfs_matching" /\ Square(A)
     /\ \E c \in Cells(A.nrows, A.ncols) : A.val[c] < 0)
        => out.err = "InvalidWeight"

(***************************************************************************)
(* C8 amended: weighted_bfs_matching never fails with InvalidWeight; the   *)
(* weights are the absolute values of the stored entries, so a matrix with *)
(* negative entries gives the outcome (permutation or SingularStructure)   *)
(* of the matrix of its magnitudes.                                        *)
(***************************************************************************)
C8_MagnitudesUsed ==
    op = "weighted_bfs_matching" =>
        /\ out.err # "InvalidWeight"
        /\ out = Result(weighted_bfs_matching(Magnitudes(A)))

\* a matrix with a negative entry for which a permutation was returned
C8_Witness ==
    /\ op = "weighted_bfs_matching" /\ A.nrows = 3
    /\ \E c \in Cells(A.nrows, A.ncols) : A.val[c] < 0
    /\ out.err = "none" /\ out.perm # Identity(3)

(***************************************************************************)
(* Reference notions for the handling of the input's container.            *)
(***************************************************************************)
\* the same matrix already held in the CSC form the matchers expect
Converted(M) == [M EXCEPT !.fmt = "csc"]

\* the outcome of the matcher named by o on M: the error and the permutation
Outcome(o, M) ==
    IF o = "bfs_matching"
    THEN [err |-> bfs_matching(M).err, perm |-> bfs_matching(M).perm]
    ELSE [err |-> weighted_bfs_matching(M).err, perm |-> weighted_bfs_matching(M).perm]

Matchers == {"bfs_matching", "weighted_bfs_matching"}

(***************************************************************************)
(* C11 as stated: on a square input that is not already in CSC form a      *)
(* matcher converts it, issues the advisory (every conversion is           *)
(* signaled), raises nothing because of the conversion and ends with the   *)
(* outcome of the already converted input.                                 *)
(***************************************************************************)
C11_EveryCoercionSignaled ==
    (op \in Matchers /\ Square(A) /\ A.fmt # "csc") =>
        /\ out.coerced
        /\ out.warned
        /\ out.err \in {"none", "SingularStructure"}
        /\ [err |-> out.err, perm |-> out.perm] = Outcome(op, Converted(A))

(***************************************************************************)
(* C11 amended: on a square input a matcher converts exactly the inputs    *)
(* that are not CSC matrices; the advisory is issued exactly for a sparse  *)
(* matrix of another format, while the data of a Qobj is converted         *)
(* silently; in every case the call ends with the outcome (permutation or  *)
(* SingularStructure) of the already converted input, and a CSC input is   *)
(* neither converted nor warned about.                                     *)
(***************************************************************************)
C11_SparseCoercionSignaled ==
    (op \in Matchers /\ Square(A)) =>
        /\ out.coerced <=> A.fmt # "csc"
        /\ out.warned <=> A.fmt \notin {"csc", "Qobj"}
        /\ out.err \in {"none", "SingularStructure"}
        /\ [err |-> out.err, perm |-> out.perm] = Outcome(op, Converted(A))

\* a CSR matrix whose rows and columns differ in pattern, converted with
\* the advisory and matched
C11_Witness ==
    /\ op = "bfs_matching" /\ A.fmt = "csr" /\ A.nrows = 3 /\ A.ncols = 3
    /\ \E c \in Cells(3, 3) : A.val[c] # 0 /\ A.val[<<c[2], c[1]>>] = 0
    /\ out.warned /\ out.coerced /\ out.err = "none"
    /\ \E i \in Nodes(A) : At(out.perm, At(out.perm, i)) # i

(***************************************************************************)
(* C13 as stated: on every square pattern that admits a perfect matching   *)
(* weighted_bfs_matching returns a complete permutation, a bijection p     *)
(* with a stored entry at every (i, p[i]) (row i, column p[i]), whatever   *)
(* the weights; it fails with SingularStructure only when the pattern has  *)
(* no perfect matching.                                                    *)
(***************************************************************************)
C13_CompleteAtRowI ==
    (op = "weighted_bfs_matching" /\ Square(A)) =>
        /\ HasPerfectMatching(A) =>
              /\ out.err = "none"
              /\ IsPermutation(out.perm, A.nrows)
              /\ \A i \in Nodes(A) : A.val[<<i, At(out.perm, i)>>] # 0
        /\ out.err = "SingularStructure" => ~HasPerfectMatching(A)

(***************************************************************************)
(* C13 amended: on every square pattern that admits a perfect matching     *)
(* weighted_bfs_matching returns a complete permutation, a bijection p     *)
(* with a stored entry at every (p[i], i) (row p[i], column i), whatever   *)
(* the weights: the preference for heavy entries never costs cardinality.  *)
(* It fails with SingularStructure only when the pattern has no perfect    *)
(* matching, and whatever it returns is such a complete permutation.       *)
(***************************************************************************)
C13_WeightedComplete ==
    (op = "weighted_bfs_matching" /\ Square(A)) =>
        /\ HasPerfectMatching(A) => out.err = "none"
        /\ out.err = "none" =>
              /\ IsPermutation(out.perm, A.nrows)
              /\ \A i \in Nodes(A) : A.val[<<At(out.perm, i), i>>] # 0
        /\ out.err = "SingularStructure" => ~HasPerfectMatching(A)

\* the heaviest entry of column b lies in the only row r that column a can
\* take: b is served first and has to give r up again for a to be matched
C13_Witness ==
    /\ op = "weighted_bfs_matching" /\ A.nrows = 3 /\ A.ncols = 3
    /\ out.err = "none"
    /\ \E a, b, r \in Nodes(A) :
          /\ a # b
          /\ Abs(A.val[<<r, a>>]) = 1
          /\ \A i \in Nodes(A) \ {r} : A.val[<<i, a>>] = 0
          /\ Abs(A.val[<<r, b>>]) = 2
          /\ \A i \in Nodes(A) \ {r} : Abs(A.val[<<i, b>>]) = 1
          /\ At(out.perm, a) = r
          /\ At(out.perm, b) # r

(***************************************************************************)
(* The sequential reference order of a graph G (symmetric structure),      *)
(* stated on the matrix: the level sets are the sets of nodes at equal     *)
(* distance from the start; a level is listed by ascending degree, nodes   *)
(* of equal degree in the order of their discovery, that is by the         *)
(* position of their first neighbour in the level before and then by node  *)
(* identifier.                                                             *)
(***************************************************************************)
RefDegree(G, v) == Cardinality({j \in Nodes(G) : G.val[<<v, j>>] # 0})

\* the list of the set S in which u precedes v exactly when
\* key[u] < key[v]; key is injective on S
ListedBy(S, key) ==
    [k \in 1..Cardinality(S) |->
        CHOOSE v \in S : Cardinality({u \in S : key[u] < key[v]}) = k - 1]

\* the nodes at distance d from s, listed after the level prev before them
RefLevel(G, s, d, prev) ==
    LET S       == {v \in Reachable(G, s) : Dist(G, s, v) = d}
        n       == G.nrows
        first   == [v \in S |->
                      SetMin({k \in 1..Len(prev) : G.val[<<prev[k], v>>] # 0})]
        key     == [v \in S |-> (RefDegree(G, v) * (n + 1) + first[v]) * n + v]
    IN  ListedBy(S, key)

RECURSIVE RefLevels(_, _, _, _, _)
RefLevels(G, s, d, prev, acc) ==
    IF prev = <<>> THEN acc
    ELSE LET nxt == RefLevel(G, s, d, prev)
         IN  RefLevels(G, s, d + 1, nxt, acc \o nxt)

\* the start that the pseudo-peripheral finder picks for the seed
RefStart(G, seed) ==
    pseudo_peripheral_node(CsrIndices(G), CsrIndptr(G), G.nrows, seed)

RECURSIVE RefSeeds(_, _, _)
RefSeeds(G, seed, acc) ==
    IF seed >= G.nrows THEN acc
    ELSE IF seed \in Range(acc) THEN RefSeeds(G, seed + 1, acc)
    ELSE LET s == RefStart(G, seed)
         IN  RefSeeds(G, seed + 1, acc \o RefLevels(G, s, 1, <<s>>, <<s>>))

RefOrder(G) == RefSeeds(G, 0, <<>>)

(***************************************************************************)
(* C12: the permutation symrcm returns is the reverse of the sequential    *)
(* reference order of the graph of A (components seeded by ascending       *)
(* unvisited node, each traversed from the start the pseudo-peripheral     *)
(* finder picks, every level by ascending degree, concatenated in          *)
(* discovery order); so the output is a function of the graph alone.       *)
(***************************************************************************)
C12_ReverseOfReference ==
    op = "symrcm" => out.perm = Reverse(RefOrder(StructUnion(A)))

\* the same for the calls in which no entry of A + A^T cancels
C12_ReverseOfReferenceNoCancel ==
    (op = "symrcm" /\ (arg.sym \/ NoCancel(A))) =>
        out.perm = Reverse(RefOrder(StructUnion(A)))

(***************************************************************************)
(* Reference notion for the finder: the eccentricity of v, the number of   *)
(* rings of new nodes met when the set of nodes reached from v is grown    *)
(* edge by edge.                                                           *)
(***************************************************************************)
RECURSIVE Rings(_, _, _, _)
Rings(G, seen, ring, d) ==
    LET nxt == {j \in Nodes(G) \ seen : \E i \in ring : G.val[<<i, j>>] # 0}
    IN  IF nxt = {} THEN d ELSE Rings(G, seen \cup nxt, nxt, d + 1)

RefEcc(G, v) == Rings(G, {v}, {v}, 0)

(***************************************************************************)
(* C14: the pseudo-peripheral search terminates for every graph and every  *)
(* start node: a round is always possible until the search returns, and it *)
(* returns within n rounds.  It goes on from the candidate (r := x) only   *)
(* when the eccentricity of the candidate is strictly larger than that of  *)
(* the root, it stops at the first candidate that is no improvement, and   *)
(* the node it returns is a node identifier in [0, n) of the connected     *)
(* component of the start node.                                            *)
(***************************************************************************)
C14_FinderTerminates ==
    /\ [](op = "finder" =>
            /\ finder.rounds <= A.nrows
            /\ finder.r \in Reachable(A, arg.start)
            /\ finder.done =>
                  /\ finder.x \in 0..(A.nrows - 1)
                  /\ finder.x \in Reachable(A, arg.start))
    /\ [][(op = "finder" /\ ~finder.done) =>
            /\ finder'.rounds = finder.rounds + 1
            /\ IF finder'.done
               THEN /\ finder'.r = finder.r
                    /\ RefEcc(A, finder'.x) <= RefEcc(A, finder.r)
               ELSE RefEcc(A, finder'.r) > RefEcc(A, finder.r)]_vars

\* a run on a path of five nodes that moved away from its start node
\* before it returned
C14_Witness ==
    /\ op = "finder" /\ finder.done /\ A.nrows = 5
    /\ finder.rounds = 2
    /\ finder.r # arg.start
    /\ finder.x # arg.start
    /\ RefEcc(A, finder.r) > RefEcc(A, arg.start)

\* the rounds return the node that the finder used by the ordering returns
C14_RoundsAgree ==
    (op = "finder" /\ finder.done) =>
        finder.x = pseudo_peripheral_node(CsrIndices(A), CsrIndptr(A), A.nrows, arg.start)

(***************************************************************************)
(* C15: after any sequence of add_points, add_vectors and clear on a       *)
(* Bloch3d object, num_points is the number of stored point sets,          *)
(* point_style has exactly one entry, 's' or 'm', per stored point set     *)
(* and num_vectors is the number of stored vectors; clear empties the five *)
(* data fields and leaves savenum and every display option as they were.   *)
(***************************************************************************)
C15_BlochCounts ==
    /\ [](/\ bloch.num_points = Len(bloch.points)
          /\ Len(bloch.point_style) = Len(bloch.points)
          /\ \A k \in 1..Len(bloch.point_style) : bloch.point_style[k] \in {"s", "m"}
          /\ bloch.num_vectors = Len(bloch.vectors))
    /\ [][op' = "clear" =>
            /\ bloch'.points = <<>> /\ bloch'.num_points = 0
            /\ bloch'.vectors = <<>> /\ bloch'.num_vectors = 0
            /\ bloch'.point_style = <<>>
            /\ bloch'.savenum = bloch.savenum
            /\ bloch'.options = bloch.options]_vars

\* a cleared object that was saved before and whose display attributes
\* were changed
C15_Witness ==
    /\ op = "clear"
    /\ bloch.points = <<>> /\ bloch.vectors = <<>>
    /\ bloch.savenum = MaxSaves
    /\ bloch.options.point_mode = "cube" /\ ~bloch.options.frame

\* an object holding point sets of both styles and a list of vectors
C15_Filled ==
    /\ bloch.num_points = MaxPoints /\ bloch.point_style = <<"m", "s">>
    /\ bloch.num_vectors = MaxVectors

=============================================================================
